---- MODULE Spec2Model ----
(***************************************************************************)
(* chatui.py: the terminal chat session (run_chatbot), its spinner thread  *)
(* (create_spinner, get_ai_response) and the transcript files              *)
(* (save_conversation_to_file, load_conversation_from_file, read_memory).  *)
(*                                                                         *)
(* Text is a sequence of one-character strings, so that strip, lower,      *)
(* startswith, endswith, slicing and the JSON text of a transcript are     *)
(* computed character by character as Python computes them.  A message is *)
(* a Python dict: a function from keys (text) to values (text).            *)
(***************************************************************************)
EXTENDS Integers, Sequences, FiniteSets, TLC

(***************************************************************************)
(* Bounds of the model.                                                    *)
(***************************************************************************)
\* longest Conversation a session is driven to
MaxConv == 5

(***************************************************************************)
(* Python str operations.                                                  *)
(***************************************************************************)
Whitespace == {" ", "\n", "\t"}

Upper == <<"Q", "U", "I", "T", "E", "X", "M", "O", "R", "Y", "N", "H", "S">>
Lower == <<"q", "u", "i", "t", "e", "x", "m", "o", "r", "y", "n", "h", "s">>

\* str.lower() of one character
LowerChar(c) ==
    IF \E i \in 1..Len(Upper) : Upper[i] = c
    THEN Lower[CHOOSE i \in 1..Len(Upper) : Upper[i] = c]
    ELSE c

\* str.lower()
ToLower(s) == [i \in 1..Len(s) |-> LowerChar(s[i])]

\* s[n:] with n >= 0
SliceFrom(s, n) == IF n >= Len(s) THEN <<>> ELSE SubSeq(s, n + 1, Len(s))

\* s[:n] with n >= 0
SliceTo(s, n) == IF n >= Len(s) THEN s ELSE SubSeq(s, 1, n)

\* str.strip()
RECURSIVE LStrip(_)
LStrip(s) == IF s # <<>> /\ Head(s) \in Whitespace THEN LStrip(Tail(s)) ELSE s

RECURSIVE RStrip(_)
RStrip(s) ==
    IF s # <<>> /\ s[Len(s)] \in Whitespace THEN RStrip(SubSeq(s, 1, Len(s) - 1)) ELSE s

Strip(s) == RStrip(LStrip(s))

\* str.startswith(p)
StartsWith(s, p) == Len(s) >= Len(p) /\ SubSeq(s, 1, Len(p)) = p

\* str.endswith(p)
EndsWith(s, p) == Len(s) >= Len(p) /\ SubSeq(s, Len(s) - Len(p) + 1, Len(s)) = p

(***************************************************************************)
(* Literals of the program.                                                *)
(***************************************************************************)
KRole == <<"r", "o", "l", "e">>
KContent == <<"c", "o", "n", "t", "e", "n", "t">>
RSystem == <<"s", "y", "s", "t", "e", "m">>
RUser == <<"u", "s", "e", "r">>
RAssistant == <<"a", "s", "s", "i", "s", "t", "a", "n", "t">>
LQuit == <<"q", "u", "i", "t">>
LExit == <<"e", "x", "i", "t">>
LMemory == <<"m", "e", "m", "o", "r", "y", " ">>
LY == <<"y">>
DotJson == <<".", "j", "s", "o", "n">>
\* DEFAULT_SYSTEM_PROMPT, abbreviated
DEFAULT_SYSTEM_PROMPT == <<"Y", "o", "u", " ", "a", "r", "e">>

\* {'role': role, 'content': content}
Message(role, content) == (KRole :> role) @@ (KContent :> content)

(***************************************************************************)
(* json.dump(conversation, f, indent=2): the text written.                 *)
(***************************************************************************)
Quote == "\""
Backslash == "\\"
Newline == "\n"

\* ss[lo] \o ... \o ss[hi]
RECURSIVE ConcatRange(_, _, _)
ConcatRange(ss, lo, hi) ==
    IF lo > hi THEN <<>>
    ELSE IF lo = hi THEN ss[lo]
    ELSE ConcatRange(ss, lo, (lo + hi) \div 2) \o ConcatRange(ss, (lo + hi) \div 2 + 1, hi)

\* "".join(ss)
Concat(ss) == ConcatRange(ss, 1, Len(ss))

\* one character inside a JSON string (json.encoder ESCAPE_ASCII)
EscapeCharBare(c) == <<c>>
EscapeChar(c) ==
    IF c = Quote THEN <<Backslash, Quote>>
    ELSE IF c = Backslash THEN <<Backslash, Backslash>>
    ELSE IF c = Newline THEN <<Backslash, "n">>
    ELSE IF c = "\t" THEN <<Backslash, "t">>
    ELSE <<c>>

\* a Python str as a JSON string
DumpStr(s) == <<Quote>> \o Concat([i \in 1..Len(s) |-> EscapeChar(s[i])]) \o <<Quote>>

Indent(n) == [i \in 1..n |-> " "]

\* the keys of a dict in the order they are written: role, content, then the rest
RECURSIVE KeyOrder(_)
KeyOrder(keys) ==
    IF keys = {} THEN <<>>
    ELSE LET k == IF KRole \in keys THEN KRole
                  ELSE IF KContent \in keys THEN KContent
                  ELSE CHOOSE x \in keys : TRUE
         IN <<k>> \o KeyOrder(keys \ {k})

\* one dict at nesting level 1 of the array
DumpDict(d) ==
    IF DOMAIN d = {} THEN <<"{", "}">>
    ELSE LET ks == KeyOrder(DOMAIN d)
             member(i) == (IF i = 1 THEN <<>> ELSE <<",">>) \o <<Newline>> \o Indent(4)
                          \o DumpStr(ks[i]) \o <<":", " ">> \o DumpStr(d[ks[i]])
         IN <<"{">> \o Concat([i \in 1..Len(ks) |-> member(i)])
            \o <<Newline>> \o Indent(2) \o <<"}">>

\* json.dump of a list of dicts, indent=2
JsonDump(conv) ==
    IF conv = <<>> THEN <<"[", "]">>
    ELSE LET item(i) == (IF i = 1 THEN <<>> ELSE <<",">>) \o <<Newline>> \o Indent(2)
                        \o DumpDict(conv[i])
         IN <<"[">> \o Concat([i \in 1..Len(conv) |-> item(i)]) \o <<Newline, "]">>

(***************************************************************************)
(* json.load(f): the value parsed from a text, or a failure                *)
(* (json.JSONDecodeError).  The texts considered are arrays of objects     *)
(* whose members are strings, and texts that are not JSON.                 *)
(***************************************************************************)
\* the decoder's position in the grammar, the text of the string being scanned,
\* the key and the members of the object being built, and the elements so far
ScanStart == [mode |-> "start", str |-> <<>>, key |-> <<>>, dict |-> <<>>, arr |-> <<>>]

JsonWs == {" ", "\n", "\t", "\r"}

\* the character an escape \c stands for
Unescape(c) ==
    IF c = "n" THEN Newline ELSE IF c = "t" THEN "\t" ELSE c

Failed(st) == [st EXCEPT !.mode = "fail"]

\* json.decoder.py_scanstring, one character inside a string (key or value)
ScanInString(st, c, closed) ==
    IF c = Quote THEN closed
    ELSE IF c = Backslash THEN [st EXCEPT !.mode = st.mode \o "_esc"]
    ELSE IF c \in {Newline, "\t", "\r"} THEN Failed(st)
    ELSE [st EXCEPT !.str = Append(st.str, c)]

\* json.decoder.py_scanstring, the character after a backslash
ScanEscape(st, c, back) ==
    IF c \in {Quote, Backslash, "/", "n", "t"}
    THEN [st EXCEPT !.mode = back, !.str = Append(st.str, Unescape(c))]
    ELSE Failed(st)

\* a token expected between values: whitespace is skipped
ScanToken(st, c, moves) ==
    IF c \in JsonWs THEN st
    ELSE IF c \in DOMAIN moves THEN [st EXCEPT !.mode = moves[c]]
    ELSE Failed(st)

\* json.decoder.JSONArray and JSONObject, one character of the text
ScanChar(st, c) ==
    CASE st.mode = "start" -> ScanToken(st, c, "[" :> "array")
      [] st.mode = "array" -> ScanToken(st, c, ("]" :> "end") @@ ("{" :> "object"))
      [] st.mode = "object" ->
            IF c = "}"
            THEN [st EXCEPT !.mode = "element", !.arr = Append(st.arr, <<>>)]
            ELSE ScanToken(st, c, Quote :> "key")
      [] st.mode = "key" ->
            ScanInString(st, c, [st EXCEPT !.mode = "colon", !.key = st.str, !.str = <<>>])
      [] st.mode = "key_esc" -> ScanEscape(st, c, "key")
      [] st.mode = "colon" -> ScanToken(st, c, ":" :> "value")
      [] st.mode = "value" -> ScanToken(st, c, Quote :> "text")
      [] st.mode = "text" ->
            ScanInString(st, c, [st EXCEPT !.mode = "member", !.str = <<>>,
                                           !.dict = (st.key :> st.str) @@ st.dict])
      [] st.mode = "text_esc" -> ScanEscape(st, c, "text")
      [] st.mode = "member" ->
            IF c = "}"
            THEN [st EXCEPT !.mode = "element", !.dict = <<>>,
                            !.arr = Append(st.arr, st.dict)]
            ELSE ScanToken(st, c, "," :> "next_key")
      [] st.mode = "next_key" -> ScanToken(st, c, Quote :> "key")
      [] st.mode = "element" ->
            ScanToken(st, c, ("]" :> "end") @@ ("," :> "next_element"))
      [] st.mode = "next_element" -> ScanToken(st, c, "{" :> "object")
      [] st.mode = "end" -> ScanToken(st, c, <<>>)
      [] OTHER -> st

\* the characters s[lo..hi] in order, from the decoder state st; a failure ends
\* the scan
RECURSIVE ScanRange(_, _, _, _)
ScanRange(s, lo, hi, st) ==
    IF lo > hi \/ st.mode = "fail" THEN st
    ELSE IF lo = hi THEN ScanChar(st, s[lo])
    ELSE ScanRange(s, (lo + hi) \div 2 + 1, hi, ScanRange(s, lo, (lo + hi) \div 2, st))

ScanText(s, i, st) == ScanRange(s, i, Len(s), st)

ParseResult(st) == [ok |-> st.mode = "end", val |-> IF st.mode = "end" THEN st.arr ELSE <<>>]

\* json.loads: one array, then only whitespace
JsonLoad(s) == ParseResult(ScanText(s, 1, ScanStart))

(***************************************************************************)
(* read_memory(filename): what it prints and returns.                      *)
(***************************************************************************)
\* start_idx = max(0, message_count - 4)
TailCount == 4
\* msg['content'][:100] + "..."
TruncateLen == 100
\* user_input[7:]
MemoryPrefixLen == 7

Ellipsis == <<".", ".", ".">>

CountRole(conv, role) == Cardinality({i \in 1..Len(conv) : conv[i][KRole] = role})

\* the content column of one displayed line
DisplayContentCutAlways(c) == SliceTo(c, TruncateLen) \o Ellipsis
DisplayContent(c) == IF Len(c) > TruncateLen THEN SliceTo(c, TruncateLen) \o Ellipsis ELSE c

\* the role label of one displayed line
DisplayRole(m) == IF m[KRole] = RUser THEN "User" ELSE "ChatTUI"

Max(a, b) == IF a >= b THEN a ELSE b

\* the lines of "Last few exchanges"
DisplayTail(conv) ==
    LET start_idx == Max(0, Len(conv) - TailCount)
        tail == SliceFrom(conv, start_idx)
    IN [i \in 1..Len(tail) |->
           [role |-> DisplayRole(tail[i]), content |-> DisplayContent(tail[i][KContent])]]

NoReport == [error |-> FALSE, counted |-> FALSE, total |-> 0, user |-> 0, ai |-> 0,
             shown |-> <<>>, ret |-> <<>>]

\* the first position from start on whose message has no 'content', else Len + 1
RECURSIVE FirstWithoutContent(_, _)
FirstWithoutContent(conv, i) ==
    IF i > Len(conv) \/ KContent \notin DOMAIN conv[i] THEN i
    ELSE FirstWithoutContent(conv, i + 1)

\* lines 112-130, on the parsed conversation: a KeyError of msg['role'] or
\* msg['content'] ends the report where it is raised
Summarize(conv) ==
    IF \E i \in 1..Len(conv) : KRole \notin DOMAIN conv[i]
    THEN [NoReport EXCEPT !.error = TRUE]
    ELSE [error |-> FirstWithoutContent(conv, Max(0, Len(conv) - TailCount) + 1) <= Len(conv),
          counted |-> TRUE,
          total |-> Len(conv),
          user |-> CountRole(conv, RUser),
          ai |-> CountRole(conv, RAssistant),
          shown |-> DisplayTail(SliceTo(conv,
                        FirstWithoutContent(conv, Max(0, Len(conv) - TailCount) + 1) - 1)),
          ret |-> IF FirstWithoutContent(conv, Max(0, Len(conv) - TailCount) + 1) <= Len(conv)
                  THEN <<>> ELSE conv]

SummarizeParsed(parsed) ==
    IF parsed.ok THEN Summarize(parsed.val) ELSE [NoReport EXCEPT !.error = TRUE]

\* read_memory: a file that cannot be opened or parsed is reported and gives []
read_memory(files, filename) ==
    IF filename \in DOMAIN files THEN SummarizeParsed(JsonLoad(files[filename]))
    ELSE [NoReport EXCEPT !.error = TRUE]

(***************************************************************************)
(* The transcript and context files.                                       *)
(***************************************************************************)
\* load_conversation_from_file
load_conversation_from_file(files, filename) ==
    IF filename \in DOMAIN files THEN JsonLoad(files[filename]).val ELSE <<>>

\* load_context_from_file
load_context_from_file(files, filename) ==
    IF filename \in DOMAIN files THEN Strip(files[filename]) ELSE DEFAULT_SYSTEM_PROMPT

\* datetime.now().strftime("%Y%m%d_%H%M%S"), one instant
Timestamp == <<"2", "0", "2", "6">>

DefaultName ==
    <<"c", "o", "n", "v", "e", "r", "s", "a", "t", "i", "o", "n", "_">> \o Timestamp \o DotJson

\* save_conversation_to_file, lines 74-80: the name written to.  filename is the
\* argument (<<>> for None or ""), typed the line read at the prompt
SaveName(filename, typed) ==
    IF filename # <<>> THEN filename
    ELSE LET t == Strip(typed)
             n == IF t = <<>> THEN DefaultName ELSE t
         IN IF EndsWith(n, DotJson) THEN n ELSE n \o DotJson

\* save_conversation_to_file, lines 82-90: the files after the write
WriteFile(files, name, conv, ok) ==
    IF ok THEN (name :> JsonDump(conv)) @@ files ELSE files

\* save_conversation_to_file: its arguments and the name it returns (<<>> for None)
SaveCall(conv, filename, typed, ok) ==
    [op |-> "save", conv |-> conv, filename |-> filename, typed |-> typed,
     ret |-> IF ok THEN SaveName(filename, typed) ELSE <<>>, loaded |-> <<>>,
     report |-> NoReport]

(***************************************************************************)
(* The command router of the session loop, lines 198-215.                  *)
(***************************************************************************)
ClassifyCaseSensitive(user_input) ==
    IF user_input \in {LQuit, LExit} THEN "Quit"
    ELSE IF StartsWith(user_input, LMemory) THEN "Memory"
    ELSE "Plain"
Classify(user_input) ==
    IF ToLower(user_input) \in {LQuit, LExit} THEN "Quit"
    ELSE IF StartsWith(ToLower(user_input), LMemory) THEN "Memory"
    ELSE "Plain"

\* line 209: continue
AfterMemoryFallThrough == "spin_start"
AfterMemory == "input"

\* memory_file = user_input[7:].strip()
MemoryFile(user_input) == Strip(SliceFrom(user_input, MemoryPrefixLen))

\* save.startswith('y') of input(...).strip().lower()
SaysYesExact(answer) == ToLower(Strip(answer)) = LY
SaysYes(answer) == StartsWith(ToLower(Strip(answer)), LY)

(***************************************************************************)
(* The environment of a run: the files present before the first start, the *)
(* command lines, the lines typed and the replies of the backend.          *)
(***************************************************************************)
FNotes == <<"n", "o", "t", "e", "s">>
FNotesJson == FNotes \o DotJson
FOld == <<"o", "l", "d">>
FBad == <<"b", "a", "d">>
FCtx == <<"c", "t", "x">>
FNope == <<"n", "o", "p", "e">>

\* a transcript written by hand, on one line
OldText ==
    <<"[", "{">> \o DumpStr(KRole) \o <<":">> \o DumpStr(RUser) \o <<",">>
    \o DumpStr(KContent) \o <<":">> \o DumpStr(<<"h", "i">>) \o <<"}", "]">>

\* a transcript cut short
BadText == SliceTo(OldText, 9)

CtxText == <<" ", "B", "e", " ", "b", "r", "i", "e", "f", "\n">>

InitialFiles == (FOld :> OldText) @@ (FBad :> BadText) @@ (FCtx :> CtxText)

\* sys.argv
CommandLines ==
    { <<"chatui">>, <<"chatui", "-help">>, <<"chatui", "-load">>, <<"chatui", "-x">>,
      <<"chatui", "-context", FCtx>> }
    \cup { <<"chatui", "-load", f>> : f \in {FOld, FBad, FNotesJson} }

\* os.getenv('CHATUI_CONTEXT'): <<>> when unset or empty
ContextFiles == { <<>>, FCtx, FNope }

\* lines typed at the chat prompt
ChatLines ==
    { <<"h", "i">>, <<" ", "E", "X", "I", "T", " ">>,
      <<"M", "e", "m", "o", "r", "y", " ", " ">> \o FNotesJson, LMemory \o FBad }

\* lines typed at the save prompt
AnswerLines == { <<" ", "Y", "e", "s">>, <<"n">>, <<>> }

\* lines typed at the filename prompt
NameLines == { FNotes, <<" ">> \o FNotesJson }

\* what chat(...) returns: a response with or without ['message']['content']
Responses ==
    { [wellformed |-> TRUE, content |-> <<Quote, Backslash, Newline>>],
      [wellformed |-> FALSE, content |-> <<>>] }

NoResponse == [wellformed |-> FALSE, content |-> <<>>]

(***************************************************************************)
(* State.  The locals of the loop body are kept while they are live: they  *)
(* are cleared when the iteration that set them ends.                      *)
(***************************************************************************)
VARIABLES
    pc,            \* where the main thread is in run_chatbot / get_ai_response
    conversation,  \* run_chatbot's conversation
    system_prompt, \* run_chatbot's system_prompt
    user_input,    \* run_chatbot's user_input
    response,      \* get_ai_response's response
    bot_response,  \* run_chatbot's bot_response
    th,            \* the spinner thread: none, poll, sleep, done
    stop_event,    \* the threading.Event of the spinner
    started,       \* calls of start_spinner in the current get_ai_response
    stopped,       \* calls of stop_spinner in the current get_ai_response
    fs,            \* the files: name -> text
    exit_status,   \* none, zero, nonzero
    out,           \* the last thing the main thread printed
    turn,          \* what the current loop iteration did so far
    store,         \* the last call of save_conversation_to_file or a load: arguments, result
    runs           \* the starts of the program so far: none, first, second

vars == <<pc, conversation, system_prompt, user_input, response, bot_response,
          th, stop_event, started, stopped, fs, exit_status, out, turn, store, runs>>

NoCall == [op |-> "none", conv |-> <<>>, filename |-> <<>>, typed |-> <<>>,
           ret |-> <<>>, loaded |-> <<>>, report |-> NoReport]

NoTurn == [kind |-> "none", len_at_read |-> 0, chat |-> "none", rendered |-> "none",
           save |-> <<>>, interrupted |-> FALSE]

Ended == {"terminated", "exited", "crashed"}
InputPoints == {"input", "ask_save", "ask_name", "int_ask_save", "int_ask_name"}
Alive == {"poll", "sleep"}

Init ==
    /\ pc = "boot"
    /\ conversation = <<>>
    /\ system_prompt = <<>>
    /\ user_input = <<>>
    /\ response = NoResponse
    /\ bot_response = <<>>
    /\ th = "none"
    /\ stop_event = FALSE
    /\ started = 0
    /\ stopped = 0
    /\ fs = InitialFiles
    /\ exit_status = "none"
    /\ out = "none"
    /\ turn = NoTurn
    /\ store = NoCall
    /\ runs = "none"

(***************************************************************************)
(* run_chatbot, lines 164-191: from the start of the program to the first  *)
(* prompt.                                                                 *)
(***************************************************************************)
\* lines 167-171
SystemPrompt(files, context_file) ==
    IF context_file # <<>> THEN load_context_from_file(files, context_file)
    ELSE DEFAULT_SYSTEM_PROMPT

\* lines 183-186: the Conversation after the loaded one is spliced in
SplicePrepending(first, loaded) == loaded \o first
SpliceReplacing(first, loaded) == IF loaded # <<>> THEN loaded ELSE first
Splice(first, loaded) == IF loaded # <<>> THEN first \o loaded ELSE first

\* lines 164-191: where the start ends, with which Conversation and output
StartOutcomeIgnoring(files, argv, context_file) ==
    [pc |-> "input", exit_status |-> "none", out |-> "clear",
     conversation |-> <<Message(RSystem, SystemPrompt(files, context_file))>>,
     system_prompt |-> SystemPrompt(files, context_file)]
StartOutcome(files, argv, context_file) ==
    LET prompt == SystemPrompt(files, context_file)
        first == <<Message(RSystem, prompt)>>
        usage == [pc |-> "exited", exit_status |-> "nonzero", out |-> "usage",
                  conversation |-> first, system_prompt |-> prompt]
        loop == [usage EXCEPT !.pc = "input", !.exit_status = "none", !.out = "clear"]
    IN IF Len(argv) > 1
       THEN IF argv[2] = "-help" THEN [usage EXCEPT !.out = "help"]
            ELSE IF argv[2] = "-load"
            THEN IF Len(argv) < 3 THEN usage
                 ELSE [loop EXCEPT !.conversation =
                          Splice(first, load_conversation_from_file(files, argv[3]))]
            ELSE usage
       ELSE loop

\* The program is started, and started once more after that run has ended: the
\* second start is a new process, which keeps only the files.
Startup(argv, context_file) ==
    /\ pc \in {"boot"} \cup Ended
    /\ runs # "second"
    /\ LET o == StartOutcome(fs, argv, context_file)
       IN /\ Len(o.conversation) <= MaxConv
          /\ pc' = o.pc
          /\ conversation' = o.conversation
          /\ system_prompt' = o.system_prompt
          /\ exit_status' = o.exit_status
          /\ out' = o.out
    /\ runs' = IF runs = "none" THEN "first" ELSE "second"
    /\ user_input' = <<>>
    /\ response' = NoResponse
    /\ bot_response' = <<>>
    /\ th' = "none"
    /\ stop_event' = FALSE
    /\ started' = 0
    /\ stopped' = 0
    /\ turn' = NoTurn
    /\ store' = NoCall
    /\ UNCHANGED fs

(***************************************************************************)
(* run_chatbot, lines 195-215: one line read at the chat prompt.           *)
(***************************************************************************)
ReadLine(line) ==
    /\ pc = "input"
    /\ LET text == Strip(line)
           kind == Classify(text)
       IN /\ user_input' = text
          /\ kind = "Plain" => Len(conversation) + 2 <= MaxConv
          /\ turn' = [NoTurn EXCEPT !.kind = kind, !.len_at_read = Len(conversation)]
          /\ IF kind = "Quit"
             THEN /\ pc' = "ask_save"
                  /\ out' = "prompt"
                  /\ UNCHANGED <<conversation, store>>
             ELSE IF kind = "Memory"
             THEN /\ out' = IF read_memory(fs, MemoryFile(text)).error
                            THEN "memory_error" ELSE "summary"
                  /\ store' = [NoCall EXCEPT !.op = "memory",
                                  !.filename = MemoryFile(text),
                                  !.report = read_memory(fs, MemoryFile(text))]
                  /\ pc' = AfterMemory
                  /\ UNCHANGED conversation
             ELSE /\ conversation' = Append(conversation, Message(RUser, text))
                  /\ pc' = "spin_start"
                  /\ out' = "prompt"
                  /\ UNCHANGED store
    /\ UNCHANGED <<system_prompt, response, bot_response, th, stop_event,
                   started, stopped, fs, exit_status, runs>>

(***************************************************************************)
(* The quit flow, lines 199-203, and the same flow in the handler of       *)
(* KeyboardInterrupt, lines 218-223.                                       *)
(***************************************************************************)
AskSave(answer) ==
    /\ pc \in {"ask_save", "int_ask_save"}
    /\ turn' = [turn EXCEPT !.save = ToLower(Strip(answer))]
    /\ IF SaysYes(answer)
       THEN /\ pc' = IF pc = "ask_save" THEN "ask_name" ELSE "int_ask_name"
            /\ UNCHANGED <<store, out, exit_status>>
       ELSE /\ pc' = "terminated"
            /\ out' = "goodbye"
            /\ exit_status' = "zero"
    /\ UNCHANGED <<store, conversation, system_prompt, user_input, response,
                   bot_response, th, stop_event, started, stopped, fs, runs>>

\* save_conversation_to_file(conversation), then the farewell and the break
AskName(typed, write_ok) ==
    /\ pc \in {"ask_name", "int_ask_name"}
    /\ fs' = WriteFile(fs, SaveName(<<>>, typed), conversation, write_ok)
    /\ store' = SaveCall(conversation, <<>>, typed, write_ok)
    /\ pc' = "terminated"
    /\ out' = "goodbye"
    /\ exit_status' = "zero"
    /\ UNCHANGED <<conversation, system_prompt, user_input, response,
                   bot_response, th, stop_event, started, stopped, turn, runs>>

(***************************************************************************)
(* Conditions raised at a point where the main thread waits.               *)
(***************************************************************************)
\* KeyboardInterrupt inside the try of lines 194-215: handled at line 217
InterruptCaught ==
    /\ pc \in {"input", "ask_save", "ask_name"}
    /\ pc' = "int_ask_save"
    /\ out' = "ctrl_c"
    /\ turn' = [turn EXCEPT !.interrupted = TRUE]
    /\ UNCHANGED <<store, conversation, system_prompt, user_input, response,
                   bot_response, th, stop_event, started, stopped, fs, exit_status,
                   runs>>

\* the status of a process whose main thread ended with an uncaught condition: the
\* interpreter waits for the spinner thread, which is not a daemon, before it exits
CrashStatus(thread) == IF thread \in Alive THEN "none" ELSE "nonzero"

\* KeyboardInterrupt anywhere else: in the handler of lines 217-223, in
\* get_ai_response (except Exception does not catch it) and in the rendering
InterruptUncaught ==
    /\ pc \in {"int_ask_save", "int_ask_name", "chat", "join63", "join66", "render"}
    /\ pc' = "crashed"
    /\ out' = "KeyboardInterrupt"
    /\ exit_status' = CrashStatus(th)
    /\ UNCHANGED <<store, conversation, system_prompt, user_input, response,
                   bot_response, th, stop_event, started, stopped, fs, turn, runs>>

\* where an EOFError of input() takes the main thread: no handler of run_chatbot
\* catches it
AfterEndOfInput(at) == "crashed"

EndOfInput ==
    /\ pc \in InputPoints
    /\ pc' = AfterEndOfInput(pc)
    /\ out' = "EOFError"
    /\ exit_status' = CrashStatus(th)
    /\ UNCHANGED <<store, conversation, system_prompt, user_input, response,
                   bot_response, th, stop_event, started, stopped, fs, turn, runs>>

(***************************************************************************)
(* get_ai_response, lines 55-67, and the spinner thread, lines 31-43.      *)
(***************************************************************************)
\* create_spinner() and start_spinner(), lines 55-56
StartSpinner ==
    /\ pc = "spin_start"
    /\ th' = "poll"
    /\ stop_event' = FALSE
    /\ started' = started + 1
    /\ pc' = "chat"
    /\ UNCHANGED <<store, conversation, system_prompt, user_input, response,
                   bot_response, stopped, fs, exit_status, out, turn, runs>>

\* spinner_function: while not stop_event.is_set()
SpinnerPollDeaf ==
    /\ th = "poll"
    /\ th' = "sleep"
    /\ UNCHANGED <<store, pc, conversation, system_prompt, user_input, response,
                   bot_response, stop_event, started, stopped, fs, exit_status, out,
                   turn, runs>>
SpinnerPoll ==
    /\ th = "poll"
    /\ th' = IF stop_event THEN "done" ELSE "sleep"
    /\ UNCHANGED <<store, pc, conversation, system_prompt, user_input, response,
                   bot_response, stop_event, started, stopped, fs, exit_status, out,
                   turn, runs>>

\* spinner_function: time.sleep(0.1)
SpinnerSleep ==
    /\ th = "sleep"
    /\ th' = "poll"
    /\ UNCHANGED <<store, pc, conversation, system_prompt, user_input, response,
                   bot_response, stop_event, started, stopped, fs, exit_status, out,
                   turn, runs>>

\* chat(...) returns, lines 59-62
ChatReturn(r) ==
    /\ pc = "chat"
    /\ response' = r
    /\ turn' = [turn EXCEPT !.chat = IF r.wellformed THEN "reply" ELSE "malformed"]
    /\ pc' = "stop63"
    /\ UNCHANGED <<store, conversation, system_prompt, user_input, bot_response, th,
                   stop_event, started, stopped, fs, exit_status, out, runs>>

\* chat(...) raises an Exception: control goes to line 65
ChatRaise ==
    /\ pc = "chat"
    /\ turn' = [turn EXCEPT !.chat = "raised"]
    /\ pc' = "stop66"
    /\ UNCHANGED <<store, conversation, system_prompt, user_input, response,
                   bot_response, th, stop_event, started, stopped, fs, exit_status, out,
                   runs>>

\* stop_spinner, line 42: stop_event.set()
StopSet ==
    /\ pc \in {"stop63", "stop66"}
    /\ stop_event' = TRUE
    /\ stopped' = stopped + 1
    /\ pc' = IF pc = "stop63" THEN "join63" ELSE "join66"
    /\ UNCHANGED <<store, conversation, system_prompt, user_input, response,
                   bot_response, th, started, fs, exit_status, out, turn, runs>>

\* whether thread.join() can return
JoinedAlways(thread) == TRUE
Joined(thread) == thread \notin Alive

\* where get_ai_response goes after stop_spinner at line 63: the return of line 64,
\* or the handler of line 65 when response['message']['content'] raises
AfterStop63(r) == IF r.wellformed THEN "render" ELSE "stop66"

\* stop_spinner, line 43: thread.join() returns; then line 64, or line 67 and the
\* handler of line 239
StopJoin ==
    /\ pc \in {"join63", "join66"}
    /\ Joined(th)
    /\ IF pc = "join63"
       THEN /\ pc' = AfterStop63(response)
            /\ bot_response' = IF response.wellformed THEN response.content
                               ELSE bot_response
       ELSE /\ pc' = "report"
            /\ UNCHANGED bot_response
    /\ UNCHANGED <<store, conversation, system_prompt, user_input, response, th,
                   stop_event, started, stopped, fs, exit_status, out, turn, runs>>

(***************************************************************************)
(* run_chatbot, lines 229-241: the rest of the loop body.                  *)
(***************************************************************************)
\* lines 230-231: print the name and render_markdown(bot_response)
Render(render_ok) ==
    /\ pc = "render"
    /\ out' = "reply"
    /\ turn' = [turn EXCEPT !.rendered = IF render_ok THEN "ok" ELSE "failed"]
    /\ pc' = IF render_ok THEN "append" ELSE "report"
    /\ UNCHANGED <<store, conversation, system_prompt, user_input, response,
                   bot_response, th, stop_event, started, stopped, fs, exit_status,
                   runs>>

\* the iteration ends: its locals and the spinner it joined are dead
EndIteration ==
    /\ pc' = "input"
    /\ user_input' = <<>>
    /\ response' = NoResponse
    /\ bot_response' = <<>>
    /\ th' = IF th = "done" THEN "none" ELSE th
    /\ stop_event' = IF th = "done" THEN FALSE ELSE stop_event
    /\ started' = 0
    /\ stopped' = 0
    /\ turn' = NoTurn

\* lines 234-237
AppendAssistant ==
    /\ pc = "append"
    /\ conversation' = Append(conversation, Message(RAssistant, bot_response))
    /\ EndIteration
    /\ UNCHANGED <<store, system_prompt, fs, exit_status, out, runs>>

\* lines 239-241: the error report
ReportErrorDropping ==
    /\ pc = "report"
    /\ out' = "error"
    /\ conversation' = SubSeq(conversation, 1, Len(conversation) - 1)
    /\ EndIteration
    /\ UNCHANGED <<store, system_prompt, fs, exit_status, runs>>
ReportError ==
    /\ pc = "report"
    /\ out' = "error"
    /\ EndIteration
    /\ UNCHANGED <<store, conversation, system_prompt, fs, exit_status, runs>>

\* the steps of a run after its start, other than reading a chat line
LoopStep ==
    \/ \E answer \in AnswerLines : AskSave(answer)
    \/ \E typed \in NameLines, ok \in BOOLEAN : AskName(typed, ok)
    \/ InterruptCaught
    \/ InterruptUncaught
    \/ EndOfInput
    \/ StartSpinner
    \/ SpinnerPoll
    \/ SpinnerSleep
    \/ \E r \in Responses : ChatReturn(r)
    \/ ChatRaise
    \/ StopSet
    \/ StopJoin
    \/ \E ok \in BOOLEAN : Render(ok)
    \/ AppendAssistant
    \/ ReportError

Next ==
    \/ \E argv \in CommandLines, c \in ContextFiles : Startup(argv, c)
    \/ \E line \in ChatLines : ReadLine(line)
    \/ LoopStep

Spec == Init /\ [][Next]_vars

(***************************************************************************)
(* The command router on its own: one run, started with no argument, fed   *)
(* every kind of line.                                                     *)
(***************************************************************************)
RouterLines ==
    { <<"Q", "U", "I", "T">>, <<"e", "x", "i", "t">>, <<" ", "e", "X", "i", "t", "\t">>,
      <<"q", "u", "i", "t", "s">>,
      <<"M", "e", "m", "o", "r", "y", " ", "f", "o", "o", ".", "j", "s", "o", "n">>,
      <<"m", "e", "m", "o", "r", "y", " ", " ", "o", "l", "d", " ">>,
      <<"m", "e", "m", "o", "r", "y">>, <<"M", "E", "M", "O", "R", "Y", " ">>,
      <<"m", "e", "m", "o", "r", "y", "\t", "x">>,
      <<>>, <<" ", " ">>,
      <<"h", "e", "l", "l", "o", " ", "t", "h", "e", "r", "e">> }

InitRouter ==
    /\ pc = StartOutcome(InitialFiles, <<"chatui">>, <<>>).pc
    /\ conversation = StartOutcome(InitialFiles, <<"chatui">>, <<>>).conversation
    /\ system_prompt = StartOutcome(InitialFiles, <<"chatui">>, <<>>).system_prompt
    /\ exit_status = StartOutcome(InitialFiles, <<"chatui">>, <<>>).exit_status
    /\ out = StartOutcome(InitialFiles, <<"chatui">>, <<>>).out
    /\ user_input = <<>>
    /\ response = NoResponse
    /\ bot_response = <<>>
    /\ th = "none"
    /\ stop_event = FALSE
    /\ started = 0
    /\ stopped = 0
    /\ fs = InitialFiles
    /\ turn = NoTurn
    /\ store = NoCall
    /\ runs = "first"

NextRouter ==
    \/ \E line \in RouterLines : ReadLine(line)
    \/ LoopStep

SpecRouter == InitRouter /\ [][NextRouter]_vars

(***************************************************************************)
(* One run under fair scheduling of its two threads: the spinner thread    *)
(* keeps taking its steps (the operating system schedules it, and          *)
(* time.sleep(0.1) returns), and thread.join() returns once the thread has *)
(* terminated.  Nothing is assumed of the user or of the backend.          *)
(***************************************************************************)
NextSpinner ==
    \/ \E line \in ChatLines : ReadLine(line)
    \/ LoopStep

SpecSpinner ==
    /\ InitRouter
    /\ [][NextSpinner]_vars
    /\ WF_vars(SpinnerPoll)
    /\ WF_vars(SpinnerSleep)
    /\ WF_vars(StopJoin)

(***************************************************************************)
(* The transcript store on its own: save_conversation_to_file called with  *)
(* any Conversation, filename argument and typed name, then                *)
(* load_conversation_from_file called on the name it returned.             *)
(***************************************************************************)
\* longest Conversation handed to the store
MaxStoreLen == 2

StoreMessages ==
    { Message(RSystem, DEFAULT_SYSTEM_PROMPT),
      Message(RUser, <<>>),
      Message(RUser, <<Quote, "a", Backslash>>),
      Message(RAssistant, <<Newline, "\t", " ">>),
      Message(<<"t", "o", "o", "l">>, <<"[", "{", "}", "]", ",", ":">>) }

StoreConvs == UNION { [1..n -> StoreMessages] : n \in 0..MaxStoreLen }

\* the filename argument: <<>> for None
StoreNames == { <<>>, FNotes, FNotesJson, DotJson, <<"a", ".", "j", "s", "o">> }

\* the line typed at the filename prompt
StoreTyped == { <<>>, <<" ", "\t">>, FNotes, <<" ">> \o FNotesJson \o <<" ">>,
                <<"j", "s", "o", "n">> }

InitStore ==
    /\ pc = "store"
    /\ conversation \in StoreConvs
    /\ system_prompt = <<>>
    /\ user_input = <<>>
    /\ response = NoResponse
    /\ bot_response = <<>>
    /\ th = "none"
    /\ stop_event = FALSE
    /\ started = 0
    /\ stopped = 0
    /\ fs = InitialFiles
    /\ exit_status = "none"
    /\ out = "none"
    /\ turn = NoTurn
    /\ store = NoCall
    /\ runs = "none"

\* save_conversation_to_file(conversation, filename), typed at its prompt
StoreSave(filename, typed, write_ok) ==
    /\ pc = "store"
    /\ fs' = WriteFile(fs, SaveName(filename, typed), conversation, write_ok)
    /\ store' = SaveCall(conversation, filename, typed, write_ok)
    /\ pc' = IF write_ok THEN "saved" ELSE "store"
    /\ UNCHANGED <<conversation, system_prompt, user_input, response, bot_response, th,
                   stop_event, started, stopped, exit_status, out, turn, runs>>

\* load_conversation_from_file(the name save returned)
StoreLoad ==
    /\ pc = "saved"
    /\ store' = [store EXCEPT !.op = "load",
                    !.loaded = load_conversation_from_file(fs, store.ret)]
    /\ pc' = "loaded"
    /\ UNCHANGED <<conversation, system_prompt, user_input, response, bot_response, th,
                   stop_event, started, stopped, fs, exit_status, out, turn, runs>>

NextStore ==
    \/ \E f \in StoreNames, t \in StoreTyped, ok \in BOOLEAN : StoreSave(f, t, ok)
    \/ StoreLoad

SpecStore == InitStore /\ [][NextStore]_vars

(***************************************************************************)
(* The summary on its own: save_conversation_to_file called with a         *)
(* Conversation of up to MaxSummaryLen messages, some of them longer than  *)
(* the 100 characters displayed, then read_memory called on the name it    *)
(* returned.                                                               *)
(***************************************************************************)
\* longest Conversation summarized
MaxSummaryLen == 5

\* a content of n characters, no two neighbours alike
LongText(n) == [i \in 1..n |-> IF i % 2 = 1 THEN "a" ELSE "b"]

SummaryMessages ==
    { Message(RSystem, DEFAULT_SYSTEM_PROMPT),
      Message(RUser, LongText(TruncateLen)),
      Message(RAssistant, LongText(TruncateLen + 1)),
      Message(RUser, <<"h", "i">>) }

SummaryConvs == UNION { [1..n -> SummaryMessages] : n \in 0..MaxSummaryLen }

InitSummary ==
    /\ pc = "store"
    /\ conversation \in SummaryConvs
    /\ system_prompt = <<>>
    /\ user_input = <<>>
    /\ response = NoResponse
    /\ bot_response = <<>>
    /\ th = "none"
    /\ stop_event = FALSE
    /\ started = 0
    /\ stopped = 0
    /\ fs = InitialFiles
    /\ exit_status = "none"
    /\ out = "none"
    /\ turn = NoTurn
    /\ store = NoCall
    /\ runs = "none"

\* read_memory(the name save returned)
StoreSummarize ==
    /\ pc = "saved"
    /\ store' = [store EXCEPT !.op = "memory", !.report = read_memory(fs, store.ret)]
    /\ out' = IF read_memory(fs, store.ret).error THEN "memory_error" ELSE "summary"
    /\ pc' = "summarized"
    /\ UNCHANGED <<conversation, system_prompt, user_input, response, bot_response, th,
                   stop_event, started, stopped, fs, exit_status, turn, runs>>

NextSummary ==
    \/ \E t \in NameLines, ok \in BOOLEAN : StoreSave(<<>>, t, ok)
    \/ StoreSummarize

SpecSummary == InitSummary /\ [][NextSummary]_vars

(***************************************************************************)
(* Properties.                                                             *)
(***************************************************************************)

\* C1: in every state of a session the Conversation holds exactly one message
\* with role system, whatever transcript was loaded.
C1_ExactlyOneSystem ==
    pc \notin {"boot", "store", "saved", "loaded"} => CountRole(conversation, RSystem) = 1

\* C2: in every state of a session the Conversation is non-empty and its first
\* element is the system message built at the start; no step of the run removes,
\* replaces or moves it.
C2_SystemFirst ==
    /\ [](pc # "boot" =>
            /\ Len(conversation) >= 1
            /\ conversation[1] = Message(RSystem, system_prompt))
    /\ [][pc \notin ({"boot"} \cup Ended) =>
            /\ system_prompt' = system_prompt
            /\ Len(conversation') >= Len(conversation)
            /\ conversation'[1] = conversation[1]]_vars

\* a run that loaded a saved transcript, appended a user message and an assistant
\* message, and is back at the prompt
C2_Witness ==
    /\ pc = "input"
    /\ Len(conversation) >= 4
    /\ conversation[2][KRole] = RSystem
    /\ conversation[Len(conversation) - 1][KRole] = RUser
    /\ conversation[Len(conversation)][KRole] = RAssistant

\* C3: after a backend call, on the success and on the failure path, stop has set
\* the flag and the spinner thread has terminated before the reply is rendered,
\* before the error is reported and before input is read again.
C3_StopCompletesFirst ==
    /\ pc \in {"render", "append", "report"} =>
          /\ stopped >= 1
          /\ stop_event
          /\ th = "done"
    /\ pc \in InputPoints => th \notin Alive

\* the error report of a backend call that raised, in a run whose previous call
\* succeeded and was rendered
C3_Witness ==
    /\ pc = "report"
    /\ turn.chat = "raised"
    /\ th = "done"
    /\ Len(conversation) >= 4
    /\ conversation[Len(conversation) - 1][KRole] = RAssistant

\* C4: over a plain-message turn the Conversation grows by exactly 1 when the
\* backend call fails and by exactly 2 when it succeeds.
C4_TurnGrowth ==
    [][(pc \in {"append", "report"} /\ pc' = "input") =>
          /\ turn.chat = "raised" => Len(conversation') = turn.len_at_read + 1
          /\ turn.chat = "reply" => Len(conversation') = turn.len_at_read + 2]_vars

\* C5: once the loop runs, the process ends only through quit/exit or a user
\* interrupt; no failure of an input read ends it.
C5_OnlyQuitOrInterrupt ==
    pc = "crashed" => out = "KeyboardInterrupt"

\* C6: save with a filename that lacks .json writes to the name with .json
\* appended, and a name that ends in .json is used unchanged, for a filename
\* argument as for a name typed at the prompt.
C6_ExtensionAppended ==
    (store.op = "save" /\ store.ret # <<>>) =>
        /\ store.ret \in DOMAIN fs
        /\ store.filename # <<>> =>
              store.ret = IF EndsWith(store.filename, DotJson) THEN store.filename
                          ELSE store.filename \o DotJson
        /\ (store.filename = <<>> /\ Strip(store.typed) # <<>>) =>
              store.ret = IF EndsWith(Strip(store.typed), DotJson) THEN Strip(store.typed)
                          ELSE Strip(store.typed) \o DotJson

\* C7: loading the file that a successful save returned gives a sequence equal to
\* the Conversation saved, and save leaves the Conversation unchanged.
C7_RoundTrip ==
    /\ pc = "loaded" => store.loaded = store.conv
    /\ pc \in {"saved", "loaded"} => conversation = store.conv

\* a Conversation of two messages, one with a quote and a backslash in its
\* content, saved and loaded back
C7_Witness ==
    /\ pc = "loaded"
    /\ Len(store.conv) = 2
    /\ \E i \in 1..2 : store.conv[i][KContent] = <<Quote, "a", Backslash>>
    /\ store.loaded = store.conv

\* C8: on every path out of get_ai_response stop_spinner has been called once and
\* only once for the spinner that was started.
C8_StopExactlyOnce ==
    /\ stopped <= started
    /\ pc \in {"render", "append", "report"} => (started = 1 /\ stopped = 1)

\* the upper-case form of a letter
UpperOf(c) ==
    IF \E i \in 1..Len(Lower) : Lower[i] = c
    THEN Upper[CHOOSE i \in 1..Len(Lower) : Lower[i] = c]
    ELSE c

\* text is word in some letter case
AnyCase(text, word) ==
    /\ Len(text) = Len(word)
    /\ \A i \in 1..Len(word) : text[i] \in {word[i], UpperOf(word[i])}

\* C9: a trimmed line equal to quit or exit in any letter case is Quit; otherwise a
\* line beginning with "memory " in any letter case is Memory(file), file the
\* trimmed remainder; every other line is appended unchanged as a user message
\* and goes to the backend.
C9_Classification ==
    (turn.kind # "none" /\ pc \in {"ask_save", "input", "spin_start"}) =>
        IF AnyCase(user_input, LQuit) \/ AnyCase(user_input, LExit)
        THEN /\ pc = "ask_save"
             /\ Len(conversation) = turn.len_at_read
        ELSE IF Len(user_input) >= Len(LMemory)
                /\ AnyCase(SubSeq(user_input, 1, Len(LMemory)), LMemory)
        THEN /\ pc = "input"
             /\ store.op = "memory"
             /\ store.filename =
                   Strip(SubSeq(user_input, Len(LMemory) + 1, Len(user_input)))
             /\ Len(conversation) = turn.len_at_read
        ELSE /\ pc = "spin_start"
             /\ Len(conversation) = turn.len_at_read + 1
             /\ conversation[Len(conversation)] = Message(RUser, user_input)

\* the bare word memory, appended as a user message and on its way to the backend,
\* after an empty line was
C9_Witness ==
    /\ pc = "spin_start"
    /\ user_input = <<"m", "e", "m", "o", "r", "y">>
    /\ Len(conversation) >= 3
    /\ conversation[2] = Message(RUser, <<>>)

\* C10: the memory command leaves the Conversation unchanged, makes no backend
\* call, starts no spinner and returns to reading input, whether the file is
\* summarized or cannot be read or parsed.
C10_MemoryFrame ==
    [][(pc = "input" /\ store'.op = "memory" /\ out' \in {"summary", "memory_error"}) =>
          /\ conversation' = conversation
          /\ pc' = "input"
          /\ th' = th
          /\ th \notin Alive
          /\ started' = started
          /\ turn'.chat = "none"
          /\ fs' = fs]_vars

\* a transcript saved by the first run, summarized in the second
C10_Witness ==
    /\ pc = "input"
    /\ out = "summary"
    /\ store.op = "memory"
    /\ store.filename = FNotesJson
    /\ Len(conversation) >= 2

\* C11: a user interrupt at the chat prompt, at the save prompt of the quit flow or
\* at its filename prompt is handled as the quit flow: the session asks whether to
\* save, saves the Conversation when the answer starts with y, prints the farewell
\* and terminates with no unhandled error.
C11_InterruptIsQuitFlow ==
    /\ [][(pc \in {"input", "ask_save", "ask_name"}
              /\ out' \in {"ctrl_c", "KeyboardInterrupt"}) =>
            /\ pc' = "int_ask_save"
            /\ out' = "ctrl_c"
            /\ conversation' = conversation
            /\ fs' = fs
            /\ exit_status' = "none"]_vars
    /\ [][(pc = "int_ask_save" /\ pc' # "crashed") =>
            IF turn'.save # <<>> /\ turn'.save[1] = "y"
            THEN /\ pc' = "int_ask_name"
                 /\ conversation' = conversation
            ELSE /\ pc' = "terminated"
                 /\ out' = "goodbye"
                 /\ exit_status' = "zero"
                 /\ fs' = fs]_vars
    /\ [][(pc = "int_ask_name" /\ pc' # "crashed") =>
            /\ pc' = "terminated"
            /\ out' = "goodbye"
            /\ exit_status' = "zero"
            /\ store'.op = "save"
            /\ store'.conv = conversation
            /\ store'.ret # <<>> =>
                  (store'.ret \in DOMAIN fs' /\ fs'[store'.ret] = JsonDump(conversation))]_vars

\* a session interrupted at a prompt after one exchange, where the answer was Yes
\* and the Conversation was saved before the farewell
C11_Witness ==
    /\ pc = "terminated"
    /\ turn.interrupted
    /\ turn.save = <<"y", "e", "s">>
    /\ store.op = "save"
    /\ store.ret = FNotesJson
    /\ store.conv = conversation
    /\ Len(conversation) >= 3
    /\ out = "goodbye"
    /\ exit_status = "zero"

\* C12: at every moment at most one backend request is outstanding and at most one
\* spinner thread is alive; a spinner thread is alive only between the start and
\* the stop that bracket one backend call, and none is alive while the session
\* reads input or after it has ended.
C12_OneSpinnerBracketed ==
    /\ started <= 1
    /\ th \in Alive => (started = 1 /\ pc \in {"chat", "stop63", "join63", "stop66", "join66"})
    /\ pc \in InputPoints \cup Ended => th \notin Alive

\* C13: a graceful quit (quit or exit, with or without saving) ends with status 0;
\* -help, an unrecognized first argument and -load with no filename each end with
\* a non-zero status before the loop is entered: no input is read and no backend
\* call is made.
C13_ExitStatus ==
    /\ [][(pc \in {"ask_save", "ask_name"} /\ out' = "goodbye") =>
            /\ pc' = "terminated"
            /\ exit_status' = "zero"]_vars
    /\ [][\A c \in ContextFiles :
            \A argv \in {<<"chatui", "-help">>, <<"chatui", "-x">>, <<"chatui", "-load">>} :
                Startup(argv, c) =>
                    /\ pc' = "exited"
                    /\ exit_status' = "nonzero"]_vars
    /\ [](pc = "exited" =>
            /\ exit_status = "nonzero"
            /\ user_input = <<>>
            /\ turn = NoTurn
            /\ started = 0
            /\ th = "none")
    /\ [][pc = "exited" => runs' # runs]_vars

\* the help text printed by a second start, after a first run that was quit with
\* a save
C13_Witness ==
    /\ pc = "exited"
    /\ out = "help"
    /\ exit_status = "nonzero"
    /\ runs = "second"
    /\ FNotesJson \in DOMAIN fs

\* C14: the option -context <file> is accepted at the start: the session reaches
\* its loop, and the trimmed text of the file is the system prompt.
C14_ContextOption ==
    [][\A c \in ContextFiles :
          Startup(<<"chatui", "-context", FCtx>>, c) =>
              /\ pc' = "input"
              /\ system_prompt' = Strip(fs[FCtx])
              /\ conversation' = <<Message(RSystem, Strip(fs[FCtx]))>>]_vars

C16_AppendBeforeRender ==
    (pc = "render" \/ (turn.chat = "reply" /\ turn.rendered # "none")) =>
        conversation[Len(conversation)] = Message(RAssistant, bot_response)

\* C17: started with -load <file>, the Conversation at the first input read is the
\* system message followed by the loaded messages in their file order; when the
\* file cannot be read or parsed, load gives an empty sequence without raising and
\* the session starts with the system message alone.  The files are old (written
\* by hand, one user message), bad (cut short) and notes.json (absent, or written
\* by the save of the run before).
C17_LoadAtStart ==
    [][\A c \in ContextFiles : \A f \in {FOld, FBad, FNotesJson} :
          Startup(<<"chatui", "-load", f>>, c) =>
              /\ pc' = "input"
              /\ exit_status' = "none"
              /\ f \in DOMAIN fs /\ f = FNotesJson =>
                    (store.op = "save" /\ store.ret = f)
              /\ conversation' =
                    <<Message(RSystem, system_prompt')>>
                    \o (IF f \notin DOMAIN fs \/ f = FBad THEN <<>>
                        ELSE IF f = FOld THEN <<Message(RUser, <<"h", "i">>)>>
                        ELSE store.conv)]_vars

\* the first prompt of a run started with -load notes.json, the file holding the
\* system, user and assistant messages saved by the run before
C17_Witness ==
    /\ pc = "input"
    /\ runs = "second"
    /\ out = "clear"
    /\ turn = NoTurn
    /\ Len(conversation) = 4
    /\ conversation[2][KRole] = RSystem
    /\ conversation[3] = Message(RUser, <<"h", "i">>)
    /\ conversation[4][KRole] = RAssistant

\* C18: the Conversation is append-only during the session loop: across any step
\* the previous Conversation is a prefix of the new one, and the only steps that
\* extend it are the append of a user message and the append of an assistant
\* message; after a failed backend call the unanswered user message stays and is
\* part of the history sent with the next backend request.
C18_AppendOnly ==
    /\ [][pc \notin ({"boot"} \cup Ended) =>
            /\ Len(conversation') >= Len(conversation)
            /\ SubSeq(conversation', 1, Len(conversation)) = conversation
            /\ conversation' # conversation =>
                  /\ Len(conversation') = Len(conversation) + 1
                  /\ \/ /\ pc = "input"
                        /\ conversation'[Len(conversation')] = Message(RUser, user_input')
                     \/ /\ pc = "append"
                        /\ conversation'[Len(conversation')] =
                              Message(RAssistant, bot_response)]_vars
    /\ [][pc = "report" =>
            /\ pc' = "input"
            /\ conversation' = conversation
            /\ conversation[Len(conversation)] = Message(RUser, user_input)]_vars
    /\ [](pc = "chat" =>
            /\ Len(conversation) = turn.len_at_read + 1
            /\ conversation[Len(conversation)] = Message(RUser, user_input))

\* a backend request whose history ends with two user messages: the one left
\* unanswered by the failed call before, and the new one
C18_Witness ==
    /\ pc = "chat"
    /\ th \in Alive
    /\ Len(conversation) = 3
    /\ conversation[2][KRole] = RUser
    /\ conversation[3][KRole] = RUser

\* C19: stop always returns: once stop has set the flag, the spinner thread, under
\* fair scheduling, observes it at its next poll and terminates, so the join
\* completes, also when stop is called before the first poll of the thread; and
\* a thread that has terminated shows no activity again.
C19_StopReturns ==
    /\ (stop_event /\ th \in Alive) ~> (th = "done")
    /\ (pc \in {"join63", "join66"}) ~> (pc \notin {"join63", "join66"})
    /\ [][(pc \in {"join63", "join66"} /\ pc' \notin {"join63", "join66", "crashed"}) =>
            th' = "done"]_vars
    /\ [][th = "done" => th' \notin Alive]_vars

\* stop has set the flag after a backend call that raised, the thread has seen it
\* and terminated, and the join is about to return
C19_Witness ==
    /\ pc = "join66"
    /\ turn.chat = "raised"
    /\ stop_event
    /\ stopped = 1
    /\ th = "done"

\* C20: whenever control has left get_ai_response, by its return or by any raised
\* condition, a user interrupt during the backend call included, the spinner
\* thread it started has terminated; so the main control flow never ends with a
\* spinner thread still running.
C20_SpinnerEndsWithCall ==
    /\ (started >= 1 /\ pc \in {"render", "append", "report", "crashed"}) => th = "done"
    /\ pc \in Ended => th \notin Alive
====
